---- MODULE Spec2Model ----
(***************************************************************************)
(* Model of booksracpy/analyze_books.py and booksracpy/cli_menu.py.        *)
(*                                                                         *)
(* A Python str is a sequence of one-character strings.  A Python value    *)
(* is a record tagged by its type in field t.  A float is kept exact as    *)
(* mantissa * 10^exponent (binary rounding is not modelled), with the two  *)
(* infinities and NaN next to the finite values; the range of a double     *)
(* (overflow to inf, underflow to 0, OverflowError on int -> float) is     *)
(* modelled.  Strings hold no backslash: JSON escapes are not modelled.    *)
(***************************************************************************)
EXTENDS Integers, Sequences, FiniteSets, TLC

VARIABLES pc, value, result, items, args, out, exitCode

vars == <<pc, value, result, items, args, out, exitCode>>

(***************************************************************************)
(* Python values                                                           *)
(***************************************************************************)
NoneV == [t |-> "none"]
BoolV(b) == [t |-> "bool", b |-> b]
\* the int m * 10^e (e >= 0)
IntV(m, e) == [t |-> "int", m |-> m, e |-> e]
FloatV(f) == [t |-> "float", f |-> f]
StrV(s) == [t |-> "str", s |-> s]
ListV(xs) == [t |-> "list", xs |-> xs]
\* a dict used as a field value; only its size matters
DictV(n) == [t |-> "dict", n |-> n]
\* an exception leaving the call
Raise(exc) == [t |-> "raise", exc |-> exc]

Fin(m, e) == [k |-> "fin", m |-> m, e |-> e]
Inf(sign) == [k |-> "inf", m |-> sign, e |-> 0]
NaN == [k |-> "nan", m |-> 0, e |-> 0]

Abs(n) == IF n < 0 THEN -n ELSE n

RECURSIVE Pow10(_)
Pow10(n) == IF n <= 0 THEN 1 ELSE 10 * Pow10(n - 1)

RECURSIVE NumDigits(_)
NumDigits(n) == IF n < 10 THEN 1 ELSE 1 + NumDigits(n \div 10)

\* mantissa without trailing zeros: the one representation of a finite value
RECURSIVE Canon(_, _)
Canon(m, e) ==
    IF m = 0 THEN Fin(0, 0)
    ELSE IF m % 10 = 0 THEN Canon(m \div 10, e + 1)
    ELSE Fin(m, e)

\* DBL_MAX = 1.7976931348623157e308, DBL_TRUE_MIN = 4.9e-324
DblMaxLead == 17976931
DblMaxExp10 == 308
DblMinExp10 == -324
LeadDigits == 8

\* the first LeadDigits digits of m
Lead(m) ==
    IF NumDigits(m) <= LeadDigits THEN m * Pow10(LeadDigits - NumDigits(m))
    ELSE m \div Pow10(NumDigits(m) - LeadDigits)

\* m * 10^e (m > 0) is beyond the largest double
ExceedsDblMax(m, e) ==
    \/ NumDigits(m) + e - 1 > DblMaxExp10
    \/ NumDigits(m) + e - 1 = DblMaxExp10 /\ Lead(m) > DblMaxLead

\* float(<int>): OverflowError when the int is too large
FloatOfInt(m, e) ==
    IF m # 0 /\ ExceedsDblMax(Abs(m), e) THEN Raise("OverflowError")
    ELSE FloatV(Canon(m, e))

\* the double nearest to sign * m * 10^e, as string -> double conversion gives it
FloatOfDecimal(sign, m, e) ==
    IF m = 0 THEN Fin(0, 0)
    ELSE IF ExceedsDblMax(m, e) THEN Inf(sign)
    ELSE IF NumDigits(m) + e - 1 < DblMinExp10 THEN Fin(0, 0)
    ELSE Canon(sign * m, e)

(***************************************************************************)
(* str methods                                                             *)
(***************************************************************************)
PyWhitespace == {" ", "\t", "\n", "\r"}
DigitChars == <<"0", "1", "2", "3", "4", "5", "6", "7", "8", "9">>
UpperChars == <<"A", "B", "C", "D", "E", "F", "G", "H", "I", "J", "K", "L", "M",
                "N", "O", "P", "Q", "R", "S", "T", "U", "V", "W", "X", "Y", "Z">>
LowerChars == <<"a", "b", "c", "d", "e", "f", "g", "h", "i", "j", "k", "l", "m",
                "n", "o", "p", "q", "r", "s", "t", "u", "v", "w", "x", "y", "z">>

IsDigit(c) == \E i \in 1..10 : DigitChars[i] = c
DigitVal(c) == (CHOOSE i \in 1..10 : DigitChars[i] = c) - 1

RECURSIVE LStrip(_)
LStrip(s) == IF s # <<>> /\ Head(s) \in PyWhitespace THEN LStrip(Tail(s)) ELSE s

RECURSIVE RStrip(_)
RStrip(s) ==
    IF s # <<>> /\ s[Len(s)] \in PyWhitespace THEN RStrip(SubSeq(s, 1, Len(s) - 1))
    ELSE s

\* s.strip()
Strip(s) == RStrip(LStrip(s))

\* s.startswith(c), s.endswith(c) for a one-character c
StartsWith(s, c) == Len(s) > 0 /\ s[1] = c
EndsWith(s, c) == Len(s) > 0 /\ s[Len(s)] = c

\* s.replace(c, '')
Remove(s, c) == SelectSeq(s, LAMBDA x : x # c)

LowerChar(c) ==
    IF \E i \in 1..26 : UpperChars[i] = c
    THEN LowerChars[CHOOSE i \in 1..26 : UpperChars[i] = c]
    ELSE c

\* s.lower()
Lower(s) == [i \in 1..Len(s) |-> LowerChar(s[i])]

\* index after the run of digits that starts at i
RECURSIVE DigitsEnd(_, _)
DigitsEnd(s, i) == IF i <= Len(s) /\ IsDigit(s[i]) THEN DigitsEnd(s, i + 1) ELSE i

\* the number a sequence of digits writes
RECURSIVE NatOf(_)
NatOf(ds) ==
    IF ds = <<>> THEN 0
    ELSE 10 * NatOf(SubSeq(ds, 1, Len(ds) - 1)) + DigitVal(ds[Len(ds)])

\* bool(v)
Truthy(v) ==
    CASE v.t = "none" -> FALSE
      [] v.t = "bool" -> v.b
      [] v.t = "int" -> v.m # 0
      [] v.t = "float" -> ~(v.f.k = "fin" /\ v.f.m = 0)
      [] v.t = "str" -> Len(v.s) > 0
      [] v.t = "list" -> Len(v.xs) > 0
      [] v.t = "dict" -> v.n > 0
      [] OTHER -> TRUE

(***************************************************************************)
(* float(<str>)                                                            *)
(***************************************************************************)
FloatFail == [ok |-> FALSE, f |-> NaN]
FloatOk(f) == [ok |-> TRUE, f |-> f]

\* underscores are accepted between two digits only, and dropped
UnderscoresOk(s) ==
    \A p \in 1..Len(s) :
        s[p] = "_" => p > 1 /\ p < Len(s) /\ IsDigit(s[p - 1]) /\ IsDigit(s[p + 1])

\* index after the exponent part that starts at c, c itself when there is none
ExpDigitsEnd(s, c, d) == IF d <= Len(s) /\ IsDigit(s[d]) THEN DigitsEnd(s, d) ELSE c

ExpEnd(s, c) ==
    IF c <= Len(s) /\ s[c] \in {"e", "E"}
    THEN ExpDigitsEnd(s, c, IF c + 1 <= Len(s) /\ s[c + 1] \in {"+", "-"}
                            THEN c + 2 ELSE c + 1)
    ELSE c

\* the exponent written in s[c..end-1], 0 when there is none
ExpValue(s, c, end) ==
    IF end = c THEN 0
    ELSE IF s[c + 1] = "-" THEN -NatOf(SubSeq(s, c + 2, end - 1))
    ELSE IF s[c + 1] = "+" THEN NatOf(SubSeq(s, c + 2, end - 1))
    ELSE NatOf(SubSeq(s, c + 1, end - 1))

\* integer digits s[a..b-1], fraction digits s[b+1..c-1] (none when c = b)
Mantissa(s, a, b, c) == NatOf(SubSeq(s, a, b - 1) \o SubSeq(s, b + 1, c - 1))
FracLen(b, c) == IF c > b THEN c - b - 1 ELSE 0

\* digits [. digits] [e [sign] digits], all of t from a on, at least one digit
ParseDecimalTo(t, sign, a, b, c, end) ==
    IF (b - a) + FracLen(b, c) >= 1 /\ end = Len(t) + 1
    THEN FloatOk(FloatOfDecimal(sign, Mantissa(t, a, b, c),
                                ExpValue(t, c, end) - FracLen(b, c)))
    ELSE FloatFail

ParseDecimal(t, sign, a, b, c) == ParseDecimalTo(t, sign, a, b, c, ExpEnd(t, c))

\* index after the fraction that starts at b: "." and any digits
FloatFracEnd(t, b) == IF b <= Len(t) /\ t[b] = "." THEN DigitsEnd(t, b + 1) ELSE b

ParseUnsigned(t, sign, a, b) == ParseDecimal(t, sign, a, b, FloatFracEnd(t, b))

\* t from a on: inf | infinity | nan in any case, or a decimal
ParseSigned(t, sign, a) ==
    IF Lower(SubSeq(t, a, Len(t))) \in {<<"i", "n", "f">>,
                                        <<"i", "n", "f", "i", "n", "i", "t", "y">>}
    THEN FloatOk(Inf(sign))
    ELSE IF Lower(SubSeq(t, a, Len(t))) = <<"n", "a", "n">> THEN FloatOk(NaN)
    ELSE ParseUnsigned(t, sign, a, DigitsEnd(t, a))

\* [sign] then the rest
ParseFloatText(t) ==
    IF Len(t) > 0 /\ t[1] = "-" THEN ParseSigned(t, -1, 2)
    ELSE IF Len(t) > 0 /\ t[1] = "+" THEN ParseSigned(t, 1, 2)
    ELSE ParseSigned(t, 1, 1)

\* float(s): ok = FALSE stands for ValueError
FloatOfStripped(t) ==
    IF ~UnderscoresOk(t) THEN FloatFail ELSE ParseFloatText(Remove(t, "_"))

FloatOfStr(s) == FloatOfStripped(Strip(s))

(***************************************************************************)
(* json.loads(<str>)                                                       *)
(***************************************************************************)
JsonWhitespace == {" ", "\t", "\n", "\r"}
JFail == [ok |-> FALSE, v |-> NoneV, i |-> 0]
JOk(v, i) == [ok |-> TRUE, v |-> v, i |-> i]

RECURSIVE SkipWs(_, _)
SkipWs(s, i) == IF i <= Len(s) /\ s[i] \in JsonWhitespace THEN SkipWs(s, i + 1) ELSE i

\* s[i..] begins with the characters of w
HasPrefix(s, i, w) == i + Len(w) - 1 <= Len(s) /\ SubSeq(s, i, i + Len(w) - 1) = w

\* index of the first c at or after i, Len(s) + 1 when there is none
RECURSIVE FindChar(_, _, _)
FindChar(s, i, c) == IF i <= Len(s) /\ s[i] # c THEN FindChar(s, i + 1, c) ELSE i

\* a string literal opening at i; control characters are refused (strict mode)
JsonStringTo(s, i, j) ==
    IF j > Len(s) \/ (\E p \in (i + 1)..(j - 1) : s[p] \in {"\t", "\n", "\r"})
    THEN JFail
    ELSE JOk(StrV(SubSeq(s, i + 1, j - 1)), j + 1)

JsonString(s, i) == JsonStringTo(s, i, FindChar(s, i + 1, "\""))

\* index after the fraction that starts at b: "." and at least one digit
JsonFracEnd(s, b) ==
    IF b + 1 <= Len(s) /\ s[b] = "." /\ IsDigit(s[b + 1]) THEN DigitsEnd(s, b + 1) ELSE b

\* index after the integer part that starts at a: "0", or digits with no leading 0
JsonIntEnd(s, a) == IF a <= Len(s) /\ s[a] = "0" THEN a + 1 ELSE DigitsEnd(s, a)

\* a float when there is a fraction or an exponent, an int otherwise
JsonNumberOf(s, sign, a, b, c, end) ==
    IF b = a THEN JFail
    ELSE IF c > b \/ end > c
    THEN JOk(FloatV(FloatOfDecimal(sign, Mantissa(s, a, b, c),
                                   ExpValue(s, c, end) - FracLen(b, c))), end)
    ELSE JOk(IntV(sign * Mantissa(s, a, b, c), 0), end)

JsonNumberFrac(s, sign, a, b, c) == JsonNumberOf(s, sign, a, b, c, ExpEnd(s, c))

JsonNumberFrom(s, sign, a, b) == JsonNumberFrac(s, sign, a, b, JsonFracEnd(s, b))

\* NUMBER_RE matches at i: a digit, after a minus sign or not
JsonNumberStarts(s, i) ==
    IF s[i] = "-" THEN i + 1 <= Len(s) /\ IsDigit(s[i + 1]) ELSE IsDigit(s[i])

\* NUMBER_RE: (-?(?:0|[1-9]\d*))(\.\d+)?([eE][-+]?\d+)?
JsonNumber(s, i) ==
    IF s[i] = "-" THEN JsonNumberFrom(s, -1, i + 1, JsonIntEnd(s, i + 1))
    ELSE JsonNumberFrom(s, 1, i, JsonIntEnd(s, i))

RECURSIVE JsonValue(_, _)
RECURSIVE JsonArrayItems(_, _, _)
RECURSIVE JsonObjectItems(_, _, _)

\* after an item that ended before j: "]" closes, "," brings the next item
JsonArrayAfter(s, j, acc) ==
    IF j > Len(s) THEN JFail
    ELSE IF s[j] = "]" THEN JOk(ListV(acc), j + 1)
    ELSE IF s[j] = "," THEN JsonArrayItems(s, SkipWs(s, j + 1), acc)
    ELSE JFail

JsonArrayItem(s, r, acc) ==
    IF ~r.ok THEN JFail ELSE JsonArrayAfter(s, SkipWs(s, r.i), Append(acc, r.v))

\* the items of an array, i at the start of the next item
JsonArrayItems(s, i, acc) == JsonArrayItem(s, JsonValue(s, i), acc)

\* after a pair that ended before j: "}" closes, "," brings the next pair
JsonObjectAfter(s, j, n) ==
    IF j > Len(s) THEN JFail
    ELSE IF s[j] = "}" THEN JOk(DictV(n), j + 1)
    ELSE IF s[j] = "," THEN JsonObjectItems(s, SkipWs(s, j + 1), n)
    ELSE JFail

JsonObjectValue(s, r, n) ==
    IF ~r.ok THEN JFail ELSE JsonObjectAfter(s, SkipWs(s, r.i), n + 1)

JsonObjectColon(s, colon, n) ==
    IF colon > Len(s) THEN JFail
    ELSE IF s[colon] # ":" THEN JFail
    ELSE JsonObjectValue(s, JsonValue(s, SkipWs(s, colon + 1)), n)

JsonObjectKey(s, k, n) ==
    IF ~k.ok THEN JFail ELSE JsonObjectColon(s, SkipWs(s, k.i), n)

\* the pairs of an object, i at the opening quote of the next key
JsonObjectItems(s, i, n) ==
    IF i <= Len(s) /\ s[i] = "\"" THEN JsonObjectKey(s, JsonString(s, i), n) ELSE JFail

\* after "{" or "[" and the whitespace behind it
JsonObjectOpen(s, j) ==
    IF j <= Len(s) /\ s[j] = "}" THEN JOk(DictV(0), j + 1) ELSE JsonObjectItems(s, j, 0)

JsonArrayOpen(s, j) ==
    IF j <= Len(s) /\ s[j] = "]" THEN JOk(ListV(<<>>), j + 1)
    ELSE JsonArrayItems(s, j, <<>>)

\* scan_once: one JSON value starting at i
JsonValue(s, i) ==
    IF i > Len(s) THEN JFail
    ELSE IF s[i] = "\"" THEN JsonString(s, i)
    ELSE IF s[i] = "{" THEN JsonObjectOpen(s, SkipWs(s, i + 1))
    ELSE IF s[i] = "[" THEN JsonArrayOpen(s, SkipWs(s, i + 1))
    ELSE IF HasPrefix(s, i, <<"n", "u", "l", "l">>) THEN JOk(NoneV, i + 4)
    ELSE IF HasPrefix(s, i, <<"t", "r", "u", "e">>) THEN JOk(BoolV(TRUE), i + 4)
    ELSE IF HasPrefix(s, i, <<"f", "a", "l", "s", "e">>) THEN JOk(BoolV(FALSE), i + 5)
    ELSE IF JsonNumberStarts(s, i) THEN JsonNumber(s, i)
    ELSE IF HasPrefix(s, i, <<"N", "a", "N">>) THEN JOk(FloatV(NaN), i + 3)
    ELSE IF HasPrefix(s, i, <<"I", "n", "f", "i", "n", "i", "t", "y">>)
    THEN JOk(FloatV(Inf(1)), i + 8)
    ELSE IF HasPrefix(s, i, <<"-", "I", "n", "f", "i", "n", "i", "t", "y">>)
    THEN JOk(FloatV(Inf(-1)), i + 9)
    ELSE JFail

\* json.loads(s): one value and nothing after it; ok = FALSE stands for JSONDecodeError
JsonWhole(s, r) == IF r.ok /\ SkipWs(s, r.i) = Len(s) + 1 THEN r ELSE JFail

JsonLoads(s) == JsonWhole(s, JsonValue(s, SkipWs(s, 1)))

(***************************************************************************)
(* analyze_books.normalize_price                                           *)
(***************************************************************************)
\* a step of the function either returns v or falls through to the next step
Returned(v) == [ret |-> TRUE, v |-> v]
FallThrough == [ret |-> FALSE, v |-> NoneV]

\* line 64-65: one pair of enclosing parentheses is dropped
StripParens(s) ==
    IF StartsWith(s, "(") /\ EndsWith(s, ")")
    THEN Strip(SubSeq(s, 2, Len(s) - 1))
    ELSE s

\* the commas are left in
RemoveCurrencyKeepingCommas(s) == Strip(Remove(s, "£"))

\* line 68: the currency symbol and the commas are dropped
RemoveCurrency(s) == Strip(Remove(Remove(s, "£"), ","))

\* line 77-80: float(s), None on any exception
FloatOrNone(r) == IF r.ok THEN FloatV(r.f) ELSE NoneV

TryFloat(s) == FloatOrNone(FloatOfStr(s))

RECURSIVE normalize_price(_)

\* line 74-76: what the recursive call returns is returned; an exception it raises
\* is swallowed by the except clause
ReturnOrSwallow(r) == IF r.t = "raise" THEN FallThrough ELSE Returned(r)

\* line 72-74: the first element of a list that parsed and is not empty
FirstOfParsed(parsed) ==
    IF parsed.ok /\ Truthy(parsed.v)
    THEN ReturnOrSwallow(normalize_price(parsed.v.xs[1]))
    ELSE FallThrough

\* line 70-76: a list literal is parsed as JSON and its first element normalized
TryListLiteral(s) ==
    IF StartsWith(s, "[") /\ EndsWith(s, "]") THEN FirstOfParsed(JsonLoads(s))
    ELSE FallThrough

\* line 70-80 on the cleaned string
ListElseFloat(s, viaList) == IF viaList.ret THEN viaList.v ELSE TryFloat(s)

NormalizeCleaned(s) == ListElseFloat(s, TryListLiteral(s))

normalize_price(v) ==
    IF v.t = "none" THEN NoneV
    ELSE IF v.t = "bool" THEN FloatOfInt(IF v.b THEN 1 ELSE 0, 0)
    ELSE IF v.t = "int" THEN FloatOfInt(v.m, v.e)
    ELSE IF v.t = "float" THEN v
    ELSE IF v.t = "str" THEN NormalizeCleaned(RemoveCurrency(StripParens(Strip(v.s))))
    ELSE NoneV

(***************************************************************************)
(* Inputs of normalize_price: numerals as a scraper writes them, and       *)
(* values of every other shape                                             *)
(***************************************************************************)
MaxFrac == 2
MaxPad == 1

\* the integers whose numerals are tried (n / 10^f is the price)
NumeralValues == {0, 5, 1000, 5177, 123456}

RECURSIVE ToDigits(_)
ToDigits(n) ==
    IF n < 10 THEN <<DigitChars[n + 1]>>
    ELSE Append(ToDigits(n \div 10), DigitChars[(n % 10) + 1])

RECURSIVE PadZeros(_, _)
PadZeros(ds, n) == IF Len(ds) >= n THEN ds ELSE PadZeros(<<"0">> \o ds, n)

\* "1234567" -> "1,234,567"
RECURSIVE GroupThousands(_)
GroupThousands(ds) ==
    IF Len(ds) <= 3 THEN ds
    ELSE GroupThousands(SubSeq(ds, 1, Len(ds) - 3)) \o <<",">>
         \o SubSeq(ds, Len(ds) - 2, Len(ds))

RECURSIVE Spaces(_)
Spaces(n) == IF n = 0 THEN <<>> ELSE <<" ">> \o Spaces(n - 1)

\* the decimal numeral of n / 10^f, with thousands separators when asked
Numeral(n, f, commas) ==
    LET ds == PadZeros(ToDigits(n), f + 1)
        int == SubSeq(ds, 1, Len(ds) - f)
        frac == SubSeq(ds, Len(ds) - f + 1, Len(ds))
    IN  (IF commas THEN GroupThousands(int) ELSE int)
        \o (IF f > 0 THEN <<".">> \o frac ELSE <<>>)

\* quote is "" for a bare element
Quoted(s, quote) == IF quote = "" THEN s ELSE <<quote>> \o s \o <<quote>>

\* the text of one case: numeral, currency prefix, list literal, parentheses, padding
InputText(c) ==
    LET d == Numeral(c.n, c.f, c.commas)
        priced == IF c.pound THEN <<"£">> \o d ELSE d
        listed == IF c.list THEN <<"[">> \o Quoted(priced, c.quote) \o <<"]">>
                  ELSE priced
        wrapped == IF c.parens
                   THEN <<"(">> \o Spaces(c.inner) \o listed \o Spaces(c.inner) \o <<")">>
                   ELSE listed
    IN  Spaces(c.padL) \o wrapped \o Spaces(c.padR)

NumeralCases ==
    [kind : {"numeral"}, n : NumeralValues, f : 0..MaxFrac, commas : BOOLEAN,
     pound : BOOLEAN, list : {FALSE}, quote : {""}, parens : BOOLEAN,
     inner : 0..MaxPad, padL : 0..MaxPad, padR : 0..MaxPad]

ListCases ==
    [kind : {"list"}, n : NumeralValues, f : 0..MaxFrac, commas : {FALSE},
     pound : BOOLEAN, list : {TRUE}, quote : {"'", "\"", ""}, parens : BOOLEAN,
     inner : {0}, padL : 0..MaxPad, padR : {0}]

OtherCase ==
    [kind |-> "other", n |-> 0, f |-> 0, commas |-> FALSE, pound |-> FALSE,
     list |-> FALSE, quote |-> "", parens |-> FALSE, inner |-> 0, padL |-> 0,
     padR |-> 0]

\* the exponents of ten around the largest double
HugeExps == {DblMaxExp10 - 1, DblMaxExp10, DblMaxExp10 + 1}

OtherTexts ==
    { <<>>, <<" ">>, <<"a", "b", "c">>, <<"b", "a", "d">>, <<"£">>, <<"(">>, <<"(", ")">>,
      <<"[">>, <<"[", "]">>, <<"[", "[", "]", "]">>, <<"[", "'", "'", "]">>,
      <<"[", "\"", "\"", "]">>, <<"[", "\"", "a", "\"", "]">>, <<"[", "n", "u", "l", "l", "]">>,
      <<"[", "t", "r", "u", "e", "]">>, <<"[", "{", "}", "]">>,
      <<"[", "{", "\"", "a", "\"", ":", "1", "}", "]">>,
      <<"[", "1", ",", "2", "]">>, <<"[", "\"", "1", "\"", ",", "\"", "2", "\"", "]">>,
      <<"[", "0", "1", "]">>, <<"[", "1", "]", "]">>, <<"[", "1", "e", "9", "9", "9", "]">>,
      <<"[", "N", "a", "N", "]">>, <<"[", "\"", "[", "5", "]", "\"", "]">>,
      <<"[", "\"", "(", "£", "5", ")", "\"", "]">>,
      <<"n", "a", "n">>, <<"i", "n", "f">>, <<"-", "I", "n", "f", "i", "n", "i", "t", "y">>,
      <<"1", "e", "9", "9", "9">>, <<"1", "e", "-", "9", "9", "9">>, <<"1", "e", "2">>,
      <<"1", "e">>, <<"1", "_", "0">>, <<"_", "1">>, <<"-", "5">>, <<"+", ".", "5">>,
      <<"5", ".">>, <<".">>, <<"1", ".", "2", ".", "3">>, <<"1", " ", "2">>,
      <<"£", "£", "5">>, <<"(", "(", "5", ")", ")">>, <<"5", "£">>, <<",", "5", ",">> }

OtherValues ==
    {NoneV, BoolV(TRUE), BoolV(FALSE), ListV(<<>>), ListV(<<IntV(5, 0)>>), DictV(0),
     DictV(1), FloatV(NaN), FloatV(Inf(1)), FloatV(Inf(-1)), FloatV(Fin(5177, -2)),
     FloatV(Fin(0, 0))}
    \cup {IntV(m, 0) : m \in {-5, 0, 7, 1000}}
    \cup {IntV(m, e) : m \in {-2, 1, 17, 18}, e \in HugeExps}
    \cup {StrV(s) : s \in OtherTexts}

(***************************************************************************)
(* SpecNorm: one call of normalize_price on every input                    *)
(***************************************************************************)
NoArgs == [kind |-> "none"]

InitNorm ==
    /\ pc = "call"
    /\ \/ \E c \in NumeralCases \cup ListCases : args = c /\ value = StrV(InputText(c))
       \/ \E v \in OtherValues : args = OtherCase /\ value = v
    /\ result = NoneV
    /\ items = <<>>
    /\ out = <<>>
    /\ exitCode = -1

\* the call returns, or an exception leaves it
CallNormalizePrice ==
    /\ pc = "call"
    /\ result' = normalize_price(value)
    /\ pc' = IF result'.t = "raise" THEN "raised" ELSE "returned"
    /\ UNCHANGED <<value, items, args, out, exitCode>>

NextNorm == CallNormalizePrice

SpecNorm == InitNorm /\ [][NextNorm]_vars

\* what the call gave, for inspection
NormOutcome == <<value, pc, result>>

(***************************************************************************)
(* float arithmetic used by the aggregations                               *)
(***************************************************************************)
Min(a, b) == IF a <= b THEN a ELSE b

\* the mantissa of finite x at exponent e <= x.e
Aligned(x, e) == x.m * Pow10(x.e - e)

\* a <= b on floats: any comparison with NaN is false
FloatLeq(a, b) ==
    IF a.k = "nan" \/ b.k = "nan" THEN FALSE
    ELSE IF a.k = "inf" THEN a.m < 0 \/ (b.k = "inf" /\ b.m > 0)
    ELSE IF b.k = "inf" THEN b.m > 0
    ELSE Aligned(a, Min(a.e, b.e)) <= Aligned(b, Min(a.e, b.e))

\* a > b
FloatGt(a, b) == FloatLeq(b, a) /\ a # b

\* m * 10^e as a double: infinite when out of range
FinOrInf(m, e) ==
    IF m # 0 /\ ExceedsDblMax(Abs(m), e) THEN Inf(IF m < 0 THEN -1 ELSE 1)
    ELSE Canon(m, e)

\* a + b
FloatAdd(a, b) ==
    IF a.k = "nan" \/ b.k = "nan" THEN NaN
    ELSE IF a.k = "inf" THEN (IF b.k = "inf" /\ b.m # a.m THEN NaN ELSE a)
    ELSE IF b.k = "inf" THEN b
    ELSE FinOrInf(Aligned(a, Min(a.e, b.e)) + Aligned(b, Min(a.e, b.e)), Min(a.e, b.e))

\* sum(prices), from the int 0
RECURSIVE SumFloats(_)
SumFloats(ps) ==
    IF ps = <<>> THEN Fin(0, 0)
    ELSE FloatAdd(SumFloats(SubSeq(ps, 1, Len(ps) - 1)), ps[Len(ps)])

\* the float sum / n, kept as the exact quotient of the two
MeanV(sum, n) == [t |-> "mean", sum |-> sum, n |-> n]

(***************************************************************************)
(* analyze_books: the four aggregations.  A record is a dict with the keys *)
(* below; a key that is absent reads as None, as dict.get gives it.        *)
(***************************************************************************)
Keys == {"category", "Category", "category_name", "price"}

\* it.get(key)
Get(it, key) == it[key]

\* a or b
Or(a, b) == IF Truthy(a) THEN a ELSE b

\* line 89: the category value count_books_in_category reads
CategoryOfCount(it) ==
    Or(Or(Get(it, "category"), Get(it, "Category")), Get(it, "category_name"))

\* line 114: the category value average_price_in_category reads
CategoryOfAverage(it) == Or(Get(it, "category"), Get(it, "Category"))

\* line 90-94 and 115-119: "skip" (no value), "match", "no", or "raise" (c[0] of
\* an empty list: IndexError)
StrMatches(c, cat) ==
    IF c.t = "str" /\ Lower(Strip(c.s)) = cat THEN "match" ELSE "no"

CategoryMatches(c, cat) ==
    IF c.t = "none" THEN "skip"
    ELSE IF c.t = "list" /\ Len(c.xs) = 0 THEN "raise"
    ELSE IF c.t = "list" THEN StrMatches(c.xs[1], cat)
    ELSE StrMatches(c, cat)

\* line 86, 111: category.strip().lower()
NormalizeCategory(category) == Lower(Strip(category))

RECURSIVE CountCategoryLoop(_, _, _, _)

\* one pass of the loop body, m the outcome of the comparison
CountCategoryStep(its, cat, i, count, m) ==
    IF m = "raise" THEN Raise("IndexError")
    ELSE CountCategoryLoop(its, cat, i + 1, IF m = "match" THEN count + 1 ELSE count)

CountCategoryLoop(its, cat, i, count) ==
    IF i > Len(its) THEN IntV(count, 0)
    ELSE CountCategoryStep(its, cat, i, count,
                           CategoryMatches(CategoryOfCount(its[i]), cat))

count_books_in_category(its, category) ==
    CountCategoryLoop(its, NormalizeCategory(category), 1, 0)

\* line 105-107, 123-125
MeanOrNone(prices) ==
    IF prices = <<>> THEN NoneV ELSE MeanV(SumFloats(prices), Len(prices))

\* line 103-104, 121-122: a price that parsed is collected
Collect(prices, p) == IF p.t = "none" THEN prices ELSE Append(prices, p.f)

RECURSIVE AverageAllLoop(_, _, _, _)

\* one pass of the loop body, p the normalized price or the exception
AverageAllStep(its, price_field, i, prices, p) ==
    IF p.t = "raise" THEN p
    ELSE AverageAllLoop(its, price_field, i + 1, Collect(prices, p))

AverageAllLoop(its, price_field, i, prices) ==
    IF i > Len(its) THEN MeanOrNone(prices)
    ELSE AverageAllStep(its, price_field, i, prices,
                        normalize_price(Get(its[i], price_field)))

average_price_all(its, price_field) == AverageAllLoop(its, price_field, 1, <<>>)

RECURSIVE AverageCategoryLoop(_, _, _, _, _)

\* line 120-122, for a record of the category
AverageCategoryPrice(its, cat, price_field, i, prices, p) ==
    IF p.t = "raise" THEN p
    ELSE AverageCategoryLoop(its, cat, price_field, i + 1, Collect(prices, p))

\* one pass of the loop body, m the outcome of the comparison
AverageCategoryStep(its, cat, price_field, i, prices, m) ==
    IF m = "raise" THEN Raise("IndexError")
    ELSE IF m # "match" THEN AverageCategoryLoop(its, cat, price_field, i + 1, prices)
    ELSE AverageCategoryPrice(its, cat, price_field, i, prices,
                              normalize_price(Get(its[i], price_field)))

AverageCategoryLoop(its, cat, price_field, i, prices) ==
    IF i > Len(its) THEN MeanOrNone(prices)
    ELSE AverageCategoryStep(its, cat, price_field, i, prices,
                             CategoryMatches(CategoryOfAverage(its[i]), cat))

average_price_in_category(its, category, price_field) ==
    AverageCategoryLoop(its, NormalizeCategory(category), price_field, 1, <<>>)

RECURSIVE PriceRangeLoop(_, _, _, _, _, _)

\* one pass of the loop body, p the normalized price or the exception
PriceRangeStep(its, lo, hi, price_field, i, count, p) ==
    IF p.t = "raise" THEN p
    ELSE PriceRangeLoop(its, lo, hi, price_field, i + 1,
                        IF p.t = "float" /\ FloatLeq(lo, p.f) /\ FloatLeq(p.f, hi)
                        THEN count + 1 ELSE count)

PriceRangeLoop(its, lo, hi, price_field, i, count) ==
    IF i > Len(its) THEN IntV(count, 0)
    ELSE PriceRangeStep(its, lo, hi, price_field, i, count,
                        normalize_price(Get(its[i], price_field)))

\* line 129-130: the bounds are swapped when they come in the wrong order
count_books_in_price_range(its, min_price, max_price, price_field) ==
    PriceRangeLoop(its,
                   IF FloatGt(min_price, max_price) THEN max_price ELSE min_price,
                   IF FloatGt(min_price, max_price) THEN min_price ELSE max_price,
                   price_field, 1, 0)

(***************************************************************************)
(* Records and calls the aggregations are tried on                         *)
(***************************************************************************)
MaxItems == 2

Travel == <<"T", "r", "a", "v", "e", "l">>
TravelPadded == <<" ", "t", "r", "a", "v", "e", "l", " ">>
TravelUpper == <<"T", "R", "A", "V", "E", "L">>
Mystery == <<"M", "y", "s", "t", "e", "r", "y">>
Blank == <<" ", " ">>
Pounds10 == <<"£", "1", "0", ".", "0", "0">>
Pounds30 == <<"£", "3", "0", ".", "0", "0">>
Bad == <<"b", "a", "d">>

Rec(category, Category, category_name, price) ==
    [category |-> category, Category |-> Category, category_name |-> category_name,
     price |-> price]

\* an int of 310 digits, as json.load reads it from a file
HugeInt == IntV(1, DblMaxExp10 + 1)

AggRecords ==
    { Rec(StrV(Travel), NoneV, NoneV, StrV(Pounds10)),
      Rec(StrV(TravelPadded), NoneV, NoneV, StrV(Pounds30)),
      Rec(StrV(TravelUpper), NoneV, NoneV, StrV(Bad)),
      Rec(NoneV, StrV(Travel), NoneV, IntV(15, 0)),
      Rec(NoneV, NoneV, StrV(Travel), StrV(Pounds30)),
      Rec(ListV(<<StrV(Travel), StrV(Mystery)>>), NoneV, NoneV, StrV(Pounds10)),
      Rec(StrV(Mystery), NoneV, NoneV, IntV(15, 0)),
      Rec(NoneV, NoneV, NoneV, StrV(Pounds10)),
      Rec(StrV(<<>>), StrV(Mystery), NoneV, NoneV),
      Rec(NoneV, NoneV, ListV(<<>>), StrV(Pounds10)),
      Rec(NoneV, ListV(<<>>), NoneV, StrV(Pounds30)),
      Rec(StrV(Travel), NoneV, NoneV, HugeInt),
      Rec(IntV(5, 0), NoneV, NoneV, StrV(Pounds30)) }

RecordLists == UNION {[1..n -> AggRecords] : n \in 0..MaxItems}

Targets == {Travel, TravelPadded, TravelUpper, Mystery, Blank}
PriceFields == {"price", "category"}
Bounds == {Fin(5, 0), Fin(1, 1), Fin(15, 0), Fin(3, 1)}

Call(op, category, min_price, max_price, price_field) ==
    [kind |-> op, category |-> category, min_price |-> min_price,
     max_price |-> max_price, price_field |-> price_field]

AggCalls ==
    {Call("count_category", c, Fin(0, 0), Fin(0, 0), "price") : c \in Targets}
    \cup {Call("avg_all", <<>>, Fin(0, 0), Fin(0, 0), f) : f \in PriceFields}
    \cup {Call("avg_category", c, Fin(0, 0), Fin(0, 0), f) : c \in Targets, f \in PriceFields}
    \cup {Call("count_range", <<>>, a, b, f) : a \in Bounds, b \in Bounds, f \in PriceFields}

(***************************************************************************)
(* SpecAgg: one call of one aggregation on every record list               *)
(***************************************************************************)
InitAgg ==
    /\ pc = "call"
    /\ items \in RecordLists
    /\ args \in AggCalls
    /\ value = NoneV
    /\ result = NoneV
    /\ out = <<>>
    /\ exitCode = -1

Return(r) ==
    /\ result' = r
    /\ pc' = IF r.t = "raise" THEN "raised" ELSE "returned"
    /\ UNCHANGED <<value, items, args, out, exitCode>>

CallCountCategory ==
    /\ pc = "call" /\ args.kind = "count_category"
    /\ Return(count_books_in_category(items, args.category))

CallAverageAll ==
    /\ pc = "call" /\ args.kind = "avg_all"
    /\ Return(average_price_all(items, args.price_field))

CallAverageCategory ==
    /\ pc = "call" /\ args.kind = "avg_category"
    /\ Return(average_price_in_category(items, args.category, args.price_field))

CallCountRange ==
    /\ pc = "call" /\ args.kind = "count_range"
    /\ Return(count_books_in_price_range(items, args.min_price, args.max_price,
                                         args.price_field))

NextAgg ==
    \/ CallCountCategory
    \/ CallAverageAll
    \/ CallAverageCategory
    \/ CallCountRange

SpecAgg == InitAgg /\ [][NextAgg]_vars

(***************************************************************************)
(* analyze_books.load_items over a small disk.  Every file's text agrees   *)
(* with its extension, except a.jsonl, whose JSON lines reach the          *)
(* JSON-array branch.                                                      *)
(***************************************************************************)
PathJson == <<"a", ".", "j", "s", "o", "n">>
PathQuoted == <<"\"", "a", ".", "j", "s", "o", "n", "\"">>
PathObject == <<"o", ".", "j", "s", "o", "n">>
PathHuge == <<"h", ".", "j", "s", "o", "n">>
PathMissing == <<"m", ".", "j", "s", "o", "n">>
PathCsv == <<"A", ".", "C", "S", "V">>
PathLines == <<"a", ".", "j", "l">>
PathBadLines == <<"x", ".", "j", "l">>
PathJsonl == <<"a", ".", "j", "s", "o", "n", "l">>

File(kind, recs) == [kind |-> kind, recs |-> recs]

Disk(p) ==
    CASE p = PathJson ->
            File("json_list", <<Rec(StrV(Travel), NoneV, NoneV, StrV(Pounds10)),
                                Rec(StrV(Travel), NoneV, NoneV, StrV(Pounds30)),
                                Rec(StrV(Travel), NoneV, NoneV, StrV(Bad))>>)
      [] p = PathObject -> File("json_object", <<>>)
      [] p = PathHuge ->
            File("json_list", <<Rec(StrV(Travel), NoneV, NoneV, HugeInt)>>)
      [] p = PathCsv ->
            File("csv", <<Rec(StrV(TravelUpper), NoneV, NoneV, StrV(Pounds30))>>)
      [] p = PathLines ->
            File("lines", <<Rec(NoneV, NoneV, ListV(<<>>), StrV(Pounds10)),
                            Rec(NoneV, ListV(<<>>), NoneV, IntV(15, 0))>>)
      [] p = PathBadLines -> File("invalid", <<>>)
      [] p = PathJsonl ->
            File("lines", <<Rec(StrV(Travel), NoneV, NoneV, StrV(Pounds10)),
                            Rec(StrV(Mystery), NoneV, NoneV, StrV(Pounds30))>>)
      [] OTHER -> File("missing", <<>>)

\* s.endswith(w)
EndsWithStr(s, w) == Len(s) >= Len(w) /\ SubSeq(s, Len(s) - Len(w) + 1, Len(s)) = w

Loaded(xs) == [t |-> "items", xs |-> xs]

\* line 45-49: json.load of the whole file, which must hold a list
LoadJsonArray(f) ==
    IF f.kind = "json_list" THEN Loaded(f.recs)
    ELSE IF f.kind = "json_object" THEN Raise("ValueError")
    ELSE Raise("JSONDecodeError")

\* line 35-42: json.loads of every line that is not blank
LoadJsonLines(f) == IF f.kind = "lines" THEN Loaded(f.recs) ELSE Raise("JSONDecodeError")

\* line 31-33: one dict of strings per row
LoadCsv(f) == Loaded(f.recs)

\* line 30-49: the branch is chosen by the extension; open() raises for no file
LoadPath(p, f) ==
    IF f.kind = "missing" THEN Raise("FileNotFoundError")
    ELSE IF EndsWithStr(Lower(p), <<".", "c", "s", "v">>) THEN LoadCsv(f)
    ELSE IF EndsWithStr(Lower(p), <<".", "j", "l">>) THEN LoadJsonLines(f)
    ELSE LoadJsonArray(f)

\* line 29: double quotes are dropped from the path
Unquote(path) == Remove(path, "\"")

load_items(path) == LoadPath(Unquote(path), Disk(Unquote(path)))

(***************************************************************************)
(* SpecCli: analyze_books.main, from the parsed arguments to the exit      *)
(***************************************************************************)
CliPaths ==
    {PathJson, PathQuoted, PathObject, PathHuge, PathMissing, PathCsv, PathLines,
     PathBadLines, PathJsonl, <<>>}

\* the argparse namespace
Namespace(input, count_category, avg_all, avg_category, count_range, price_field) ==
    [input |-> input, count_category |-> count_category, avg_all |-> avg_all,
     avg_category |-> avg_category, count_range |-> count_range,
     price_field |-> price_field]

RangeTexts == {<<"5">>, <<"2", "0">>, <<"a", "b", "c">>}

CliOptions ==
    {Namespace(<<>>, StrV(c), FALSE, NoneV, NoneV, "price") : c \in {Travel, TravelPadded, <<>>}}
    \cup {Namespace(<<>>, NoneV, TRUE, NoneV, NoneV, f) : f \in PriceFields}
    \cup {Namespace(<<>>, NoneV, FALSE, StrV(c), NoneV, "price") : c \in {Travel, Mystery}}
    \cup {Namespace(<<>>, NoneV, FALSE, NoneV, ListV(<<StrV(a), StrV(b)>>), "price") :
            a \in RangeTexts, b \in RangeTexts}

InitCli ==
    /\ pc = "start"
    /\ \E o \in CliOptions, p \in CliPaths : args = [o EXCEPT !.input = p]
    /\ items = <<>>
    /\ value = NoneV
    /\ result = NoneV
    /\ out = <<>>
    /\ exitCode = -1

\* an exception leaves main: the interpreter prints the traceback, exit status 1
Crash(exc) ==
    /\ pc' = "exit"
    /\ out' = <<"Traceback", exc>>
    /\ exitCode' = 1

\* main returns after printing msg: exit status 0
Finish(msg) ==
    /\ pc' = "exit"
    /\ out' = msg
    /\ exitCode' = 0

\* a result is printed with its message, an exception leaves main
PrintOrCrash(r, msg) ==
    /\ result' = r
    /\ IF r.t = "raise" THEN Crash(r.exc) ELSE Finish(<<msg, r>>)

\* an average is printed, or the message that there is none
PrintAverage(avg, none, msg) ==
    PrintOrCrash(avg, IF avg.t = "none" THEN none ELSE msg)

\* line 179-186
PrintRange(mn, mx) ==
    IF mn.ok /\ mx.ok
    THEN PrintOrCrash(count_books_in_price_range(items, mn.f, mx.f, args.price_field),
                      "Count books in range")
    ELSE Finish(<<"MIN and MAX must be numeric">>) /\ UNCHANGED result

\* line 155
MainLoaded(r) ==
    IF r.t = "raise"
    THEN Crash(r.exc) /\ UNCHANGED items
    ELSE items' = r.xs /\ pc' = "loaded" /\ UNCHANGED <<out, exitCode>>

MainLoad ==
    /\ pc = "start"
    /\ MainLoaded(load_items(args.input))
    /\ UNCHANGED <<value, result, args>>

\* line 157-160
MainCountCategory ==
    /\ pc = "loaded"
    /\ Truthy(args.count_category)
    /\ PrintOrCrash(count_books_in_category(items, args.count_category.s), "Count books in category")
    /\ UNCHANGED <<value, items, args>>

\* line 162-168
MainAverageAll ==
    /\ pc = "loaded"
    /\ ~Truthy(args.count_category) /\ args.avg_all
    /\ PrintAverage(average_price_all(items, args.price_field),
                    "No prices found to compute average", "Average price (all books)")
    /\ UNCHANGED <<value, items, args>>

\* line 170-176
MainAverageCategory ==
    /\ pc = "loaded"
    /\ ~Truthy(args.count_category) /\ ~args.avg_all /\ Truthy(args.avg_category)
    /\ PrintAverage(average_price_in_category(items, args.avg_category.s, args.price_field),
                    "No prices found in category", "Average price in category")
    /\ UNCHANGED <<value, items, args>>

\* line 178-187
MainCountRange ==
    /\ pc = "loaded"
    /\ ~Truthy(args.count_category) /\ ~args.avg_all /\ ~Truthy(args.avg_category)
    /\ Truthy(args.count_range)
    /\ PrintRange(FloatOfStr(args.count_range.xs[1].s), FloatOfStr(args.count_range.xs[2].s))
    /\ UNCHANGED <<value, items, args>>

\* no branch of main is taken (--count-category ''): main returns at once
MainNoAction ==
    /\ pc = "loaded"
    /\ ~Truthy(args.count_category) /\ ~args.avg_all /\ ~Truthy(args.avg_category)
    /\ ~Truthy(args.count_range)
    /\ Finish(<<>>)
    /\ UNCHANGED <<value, result, items, args>>

NextCli ==
    \/ MainLoad
    \/ MainCountCategory
    \/ MainAverageAll
    \/ MainAverageCategory
    \/ MainCountRange
    \/ MainNoAction

SpecCli == InitCli /\ [][NextCli]_vars

(***************************************************************************)
(* SpecMenu: cli_menu.main.  pc tells which input() the program waits at:  *)
(* the path prompt of choose_file, called at start-up or for 'Reload       *)
(* file', or the menu's 'Choice: ' prompt.  A step runs from one prompt    *)
(* to the next.  args is what the user typed in the step.                  *)
(***************************************************************************)
\* items of run_menu before choose_file has returned
Unbound == <<[t |-> "unbound"]>>

MenuPaths == {PathJson, PathQuoted, PathObject, PathHuge, PathMissing, PathCsv,
              PathLines, PathBadLines, <<>>, Blank}
MenuCategories == {Travel, TravelPadded, Mystery, <<>>, Blank}
UnknownChoices == {<<"6">>, <<>>, <<"x">>}

Typed(choice, text, mn, mx, field) ==
    [kind |-> choice, category |-> text, min_price |-> mn, max_price |-> mx,
     price_field |-> field]

InitMenu ==
    /\ pc = "start_choose_file"
    /\ items = Unbound
    /\ args = Typed("", <<>>, <<>>, <<>>, "price")
    /\ value = NoneV
    /\ result = NoneV
    /\ out = <<"Books analysis">>
    /\ exitCode = -1

AtPathPrompt == pc \in {"start_choose_file", "reload_choose_file"}

\* line 33-38: the list is returned to run_menu, or the error is printed and the
\* loop of choose_file goes round
ChooseFileLoaded(r) ==
    IF r.t = "raise"
    THEN out' = <<"Error loading file", r.exc>> /\ UNCHANGED <<pc, items>>
    ELSE out' = <<"Loaded", Len(r.xs)>> /\ items' = r.xs /\ pc' = "menu"

\* line 28-38: one pass of the loop of choose_file
ChooseFile ==
    /\ AtPathPrompt
    /\ \E path \in MenuPaths :
        /\ args' = Typed("path", path, <<>>, <<>>, "price")
        /\ IF Strip(path) = <<>>
           THEN out' = <<"Please provide a file path.">> /\ UNCHANGED <<pc, items>>
           ELSE ChooseFileLoaded(load_items(Strip(path)))
    /\ UNCHANGED <<value, result, exitCode>>

\* an exception other than KeyboardInterrupt leaves run_menu and main
MenuCrash(exc) ==
    /\ pc' = "exit"
    /\ out' = <<"Traceback", exc>>
    /\ exitCode' = 1

\* the result is printed and the menu comes again, or the exception leaves run_menu
ShowOrCrash(r, msg) ==
    /\ result' = r
    /\ IF r.t = "raise" THEN MenuCrash(r.exc)
       ELSE out' = <<msg, r>> /\ UNCHANGED <<pc, exitCode>>

ShowAverage(avg, none, msg) == ShowOrCrash(avg, IF avg.t = "none" THEN none ELSE msg)

\* a message is printed and the menu comes again
Continue(msg) == out' = <<msg>> /\ UNCHANGED <<pc, exitCode, result>>

\* line 55-57
MenuExit ==
    /\ pc = "menu"
    /\ args' = Typed("0", <<>>, <<>>, <<>>, "price")
    /\ pc' = "exit" /\ out' = <<"Goodbye">> /\ exitCode' = 0
    /\ UNCHANGED <<value, result, items>>

\* the count consumes the list it is given
MenuCountCategoryDroppingItems ==
    /\ pc = "menu"
    /\ \E cat \in MenuCategories :
        /\ args' = Typed("1", cat, <<>>, <<>>, "price")
        /\ IF Strip(cat) = <<>> THEN Continue("Category cannot be empty")
           ELSE ShowOrCrash(count_books_in_category(items, Strip(cat)),
                            "Count books in category")
    /\ items' = <<>>
    /\ UNCHANGED value

\* line 59-65
MenuCountCategory ==
    /\ pc = "menu"
    /\ \E cat \in MenuCategories :
        /\ args' = Typed("1", cat, <<>>, <<>>, "price")
        /\ IF Strip(cat) = <<>> THEN Continue("Category cannot be empty")
           ELSE ShowOrCrash(count_books_in_category(items, Strip(cat)),
                            "Count books in category")
    /\ UNCHANGED <<value, items>>

\* line 67-73
MenuAverageAll ==
    /\ pc = "menu"
    /\ \E f \in PriceFields :
        /\ args' = Typed("2", <<>>, <<>>, <<>>, f)
        /\ ShowAverage(average_price_all(items, f),
                       "No valid prices found to compute average",
                       "Average price (all books)")
    /\ UNCHANGED <<value, items>>

\* line 75-85
MenuAverageCategory ==
    /\ pc = "menu"
    /\ \E cat \in MenuCategories, f \in PriceFields :
        /\ args' = Typed("3", cat, <<>>, <<>>, f)
        /\ IF Strip(cat) = <<>> THEN Continue("Category cannot be empty")
           ELSE ShowAverage(average_price_in_category(items, Strip(cat), f),
                            "No valid prices found in category",
                            "Average price in category")
    /\ UNCHANGED <<value, items>>

\* line 90-98
ShowRange(mn, mx, f) ==
    IF mn.ok /\ mx.ok
    THEN ShowOrCrash(count_books_in_price_range(items, mn.f, mx.f, f),
                     "Count books in range")
    ELSE Continue("Please enter numeric values for min and max")

\* line 87-98
MenuCountRange ==
    /\ pc = "menu"
    /\ \E mn \in RangeTexts, mx \in RangeTexts, f \in PriceFields :
        /\ args' = Typed("4", <<>>, mn, mx, f)
        /\ ShowRange(FloatOfStr(Strip(mn)), FloatOfStr(Strip(mx)), f)
    /\ UNCHANGED <<value, items>>

\* line 100-101: choose_file is called; items is assigned when it returns
MenuReload ==
    /\ pc = "menu"
    /\ args' = Typed("5", <<>>, <<>>, <<>>, "price")
    /\ pc' = "reload_choose_file"
    /\ UNCHANGED <<value, result, items, out, exitCode>>

\* line 103-104
MenuUnknown ==
    /\ pc = "menu"
    /\ \E c \in UnknownChoices : args' = Typed("?", c, <<>>, <<>>, "price")
    /\ Continue("Unknown choice")
    /\ UNCHANGED <<value, items>>

\* line 108-112: Ctrl-C at a prompt; main catches KeyboardInterrupt
Interrupt ==
    /\ AtPathPrompt \/ pc = "menu"
    /\ pc' = "exit" /\ out' = <<"Interrupted">> /\ exitCode' = 0
    /\ UNCHANGED <<value, result, items, args>>

\* the input ends at a prompt: input() raises EOFError, which nothing catches
EndOfInput ==
    /\ AtPathPrompt \/ pc = "menu"
    /\ MenuCrash("EOFError")
    /\ UNCHANGED <<value, result, items, args>>

NextMenu ==
    \/ ChooseFile
    \/ MenuExit
    \/ MenuCountCategory
    \/ MenuAverageAll
    \/ MenuAverageCategory
    \/ MenuCountRange
    \/ MenuReload
    \/ MenuUnknown
    \/ Interrupt
    \/ EndOfInput

SpecMenu == InitMenu /\ [][NextMenu]_vars

(***************************************************************************)
(* Claims about normalize_price, under SpecNorm                            *)
(***************************************************************************)
\* the price the numeral of case c writes: n / 10^f
PriceOf(c) == FloatV(Canon(c.n, -c.f))

\* C1: normalize_price of a list literal that wraps a quoted, currency-prefixed
\* price, such as "['£51.77']", gives the price of its first element (51.77),
\* not None.
C1_QuotedListLiteralGivesPrice ==
    (pc # "call" /\ args.kind = "list" /\ args.quote # "" /\ args.pound
     /\ ~args.parens /\ args.padL = 0)
    => result = PriceOf(args)

\* C2: for every decimal numeral d, normalize_price gives the value of d for d
\* itself, for d after '£', for either inside one pair of parentheses, with
\* whitespace around, and with thousands separators inside d; "abc" and None
\* give None.
C2_DecoratedNumeralGivesValue ==
    pc # "call" =>
        /\ args.kind = "numeral" => result = PriceOf(args)
        /\ value = StrV(<<"a", "b", "c">>) => result = NoneV
        /\ value = NoneV => result = NoneV

\* "  ( £1,234.56 ) " has been normalized to 1234.56
C2_Witness ==
    /\ pc = "returned"
    /\ args.kind = "numeral" /\ args.n = 123456 /\ args.f = 2
    /\ args.commas /\ args.pound /\ args.parens
    /\ args.inner = 1 /\ args.padL = 1 /\ args.padR = 1
    /\ result = FloatV(Fin(123456, -2))

\* C3: normalize_price is total: on a value of any shape it returns a finite
\* float or None and never raises.
C3_FiniteOrNoneNeverRaises ==
    pc # "call" =>
        /\ pc # "raised"
        /\ result = NoneV \/ (result.t = "float" /\ result.f.k = "fin")

(***************************************************************************)
(* Claims about the aggregations, under SpecAgg                            *)
(***************************************************************************)
\* the category value of a record: the first element of a list, else the value
FirstOrSelf(c) ==
    IF c.t = "list" THEN (IF Len(c.xs) > 0 THEN c.xs[1] ELSE NoneV) ELSE c

\* the record's category value is a string equal to the target, both trimmed
\* and lower-cased
InCategory(it, target) ==
    /\ FirstOrSelf(CategoryOfCount(it)).t = "str"
    /\ Lower(Strip(FirstOrSelf(CategoryOfCount(it)).s)) = Lower(Strip(target))

\* the records average_price_in_category takes prices from
AveragedRecords(its, target) ==
    {i \in 1..Len(its) :
        CategoryMatches(CategoryOfAverage(its[i]), NormalizeCategory(target)) = "match"}

\* the records count_books_in_category counts
CountedRecords(its, target) ==
    {i \in 1..Len(its) :
        CategoryMatches(CategoryOfCount(its[i]), NormalizeCategory(target)) = "match"}

\* C4: average_price_in_category selects records by the rule of
\* count_books_in_category: the records whose prices it averages are exactly
\* the records the count counts.
C4_AverageSelectsWhatCountCounts ==
    (pc # "call" /\ args.kind = "avg_category")
    => AveragedRecords(items, args.category) = CountedRecords(items, args.category)

\* C5: count_books_in_category returns the number of records whose category
\* value is a string equal to the target after trimming and lower-casing; targets
\* that differ in case or surrounding whitespace give the same count; records
\* with no category value add nothing.
C5_CountIsNumberInCategory ==
    (pc # "call" /\ args.kind = "count_category")
    => /\ result = IntV(Cardinality({i \in 1..Len(items) :
                                        InCategory(items[i], args.category)}), 0)
       /\ \A other \in Targets :
            Lower(Strip(other)) = Lower(Strip(args.category))
            => count_books_in_category(items, other) = result

\* the prices of the records in sel that normalize to a float, in list order
RECURSIVE ParsedPrices(_, _, _, _)
ParsedPrices(its, sel, field, i) ==
    IF i > Len(its) THEN <<>>
    ELSE IF i \in sel /\ normalize_price(Get(its[i], field)).t = "float"
    THEN <<normalize_price(Get(its[i], field)).f>> \o ParsedPrices(its, sel, field, i + 1)
    ELSE ParsedPrices(its, sel, field, i + 1)

MeanOfParsed(its, sel, field) ==
    IF ParsedPrices(its, sel, field, 1) = <<>> THEN NoneV
    ELSE MeanV(SumFloats(ParsedPrices(its, sel, field, 1)),
               Len(ParsedPrices(its, sel, field, 1)))

\* C6: average_price_all and average_price_in_category return None exactly when
\* no selected record has a price that normalizes, and otherwise the mean of the
\* prices that normalize, the others left out of the sum and of the divisor.
C6_MeanOfParsedPricesOrNone ==
    /\ (pc # "call" /\ args.kind = "avg_all")
       => result = MeanOfParsed(items, 1..Len(items), args.price_field)
    /\ (pc # "call" /\ args.kind = "avg_category")
       => result = MeanOfParsed(items, AveragedRecords(items, args.category),
                                args.price_field)

\* the smaller and the larger of two bounds
LowerBound(a, b) == IF FloatLeq(a, b) THEN a ELSE b
UpperBound(a, b) == IF FloatLeq(a, b) THEN b ELSE a

\* the records whose price normalizes to p with lo <= p <= hi
InRange(its, field, lo, hi) ==
    {i \in 1..Len(its) :
        /\ normalize_price(Get(its[i], field)).t = "float"
        /\ FloatLeq(lo, normalize_price(Get(its[i], field)).f)
        /\ FloatLeq(normalize_price(Get(its[i], field)).f, hi)}

\* C7: count_books_in_price_range(items, a, b) equals the call with the bounds
\* exchanged, and both are the number of records whose price normalizes to p
\* with min(a,b) <= p <= max(a,b).
C7_RangeCountIsSymmetricAndInclusive ==
    (pc # "call" /\ args.kind = "count_range")
    => /\ result = IntV(Cardinality(InRange(items, args.price_field,
                                            LowerBound(args.min_price, args.max_price),
                                            UpperBound(args.min_price, args.max_price))), 0)
       /\ count_books_in_price_range(items, args.max_price, args.min_price,
                                     args.price_field) = result

(***************************************************************************)
(* Claim about analyze_books.main, under SpecCli                           *)
(***************************************************************************)
\* C8: every run of main whose arguments parsed ends with exit code 0, and no
\* exception propagates out of main; a file-load error is printed as a message.
C8_MainExitsZero ==
    pc = "exit" => exitCode = 0 /\ (out = <<>> \/ out[1] # "Traceback")

(***************************************************************************)
(* Claims about the interactive menu, under SpecMenu                       *)
(***************************************************************************)
\* C9: a file-load error is never fatal: after an empty path or a failing load
\* choose_file prints a message and prompts again; the menu is shown only after
\* a load has succeeded, at start-up and after 'Reload file'; the menu loop ends
\* only when the user chooses Exit or interrupts.
C9_LoadErrorsRepromptAndOnlyExitEnds ==
    /\ [](pc = "menu" => items # Unbound)
    /\ [][/\ (AtPathPrompt /\ pc' # "exit")
             => \/ pc' = "menu" /\ out'[1] = "Loaded"
                \/ pc' = pc /\ items' = items
                   /\ out'[1] \in {"Please provide a file path.", "Error loading file"}
          /\ (AtPathPrompt /\ pc' = "exit")
             => out' \in {<<"Interrupted">>, <<"Traceback", "EOFError">>}
          /\ (pc = "menu" /\ pc' = "exit")
             => out' \in {<<"Goodbye">>, <<"Interrupted">>, <<"Traceback", "EOFError">>}
       ]_vars

====
